---- MODULE Spec2Model ----
(***************************************************************************)
(* Model of uldlib/frontend.py: the two progress frontends                 *)
(* (ConsoleFrontend, JSONFrontend), their monitoring loop (run / _loop),   *)
(* the throughput window (last_bps) and the log setters.                   *)
(*                                                                         *)
(* One frontend instance and one call of run are modelled.  The download   *)
(* workers (Worker), the owner of the stop event (SetStop) and the log     *)
(* producers (TorLog, CaptchaLog, MainLog, CaptchaStats) run concurrently  *)
(* with the monitor.                                                       *)
(*                                                                         *)
(* Specifications: Spec (monitor, workers, stop event, log producers),     *)
(* SpecMonitor / FairMonitor (without the log producers), SpecWindow (the  *)
(* throughput estimator alone), SpecLog (the log setters called one after  *)
(* the other), SpecThreads (the log setters statement by statement, from   *)
(* the producers' threads), SpecRows (the dashboard rows) and SpecEquiv    *)
(* (the console loop and the JSON loop on the same inputs).                *)
(***************************************************************************)
EXTENDS Integers, Sequences, FiniteSets, TLC

\* ------------------------------------------------------------------ bounds
NParts == 2          \* info.parts: number of download parts
TotalSize == 2       \* info.total_size: bytes of the file, all parts together
MaxBytes == 1        \* bytes the workers download, all parts together
MaxTime == 1         \* largest value time.time() returns (it starts at 0)
MaxTicks == 1        \* loop iterations begun while the stop event is unset
MaxLogCalls == 2     \* calls of the log setters and of captcha_stats
MaxUpdates == 12     \* loop iterations of the throughput-window specification
MaxSpan == 3         \* largest time.time() of the throughput-window specification

\* ------------------------------------------------------- program constants
WindowSize == 10             \* len(last_bps) >= 10
CLI_STATUS_STARTLINE == 5    \* uldlib.const.CLI_STATUS_STARTLINE

Modes == {"console", "json"}
Parts == 0 .. (NParts - 1)         \* part.id
Msgs == {"m1", "m2"}
Levels == {"INFO", "ERROR"}
StatsVals == {"stats1"}            \* a captcha statistics dict
Channels == {"tor", "captcha", "main"}   \* the three log setters
Threads == Channels                \* the thread of each log producer

VARIABLES
    mode,              \* which Frontend subclass was constructed
    show_parts,        \* self.show_parts
    pc,                \* position of the monitor thread inside run/_loop
    cli_initialized,   \* ConsoleFrontend.cli_initialized
    cursor_hidden,     \* terminal: "\033[?25l" written and not yet "\033[?25h"
    cursor_row,        \* terminal: row of the last cursor positioning (0: none)
    stop_event,        \* threading.Event passed to run
    size,              \* size[p]: bytes part p reports from get_frontend_status
    idx,               \* next part of the running `for part in parts` pass
    clock,             \* latest value returned by time.time()
    t_start, s_start,  \* locals of _loop
    t, s,
    last_bps,          \* the throughput window: sequence of [s, t]
    total_bps, now_bps, remaining,
    elapsed, speed,
    out,               \* records printed on stdout, in order
    last_log, last_captcha_log, last_captcha_stats,
    logfile_open,      \* self.logfile is not None
    logfile,           \* lines appended to the log file
    terminate_calls,   \* number of calls of terminate_func
    failed,            \* an exception reached the except clause of run
    raised,            \* the exception that was raised ("" if none)
    raised_at,         \* the position of the monitor when it was raised
    \* history variables (not program state)
    nticks,            \* loop iterations begun
    polls,             \* calls of stop_event.is_set()
    renders,           \* ticks whose rendering was emitted
    reads,             \* get_frontend_status calls of the running tick
    snap,              \* snap[p]: bytes read for part p in the running tick
    ticks_after_stop,  \* loop iterations begun while stop_event was set
    stop_before_first, \* stop_event was set when the first iteration began
    win_upd,           \* win_upd[i]: iteration that appended last_bps[i] (0: line 174)
    base,              \* the oldest sample of the window when now_bps was last
                       \* computed: [upd, s, t], upd the iteration that appended
                       \* it (-1 when line 208 set now_bps and read no sample)
    nlogs,             \* calls of the log setters and of captcha_stats
    cb_cursor_ok,      \* terminate_func was called with the cursor restored
    recorded,          \* the calls of the log setters, in order:
                       \* [chan, msg, level]
    durable,           \* calls of the log setters with progress = False made
                       \* with a log file configured
    log_writer,        \* log_writer[i]: the thread that appended logfile[i]
    max_row,           \* highest terminal row written by a tick (0: none)
    sum_begin,         \* sum of the parts' bytes when the running tick's read
                       \* pass began
    s_prev,            \* the aggregate s of the previous tick
    \* the log setters executed statement by statement by the producers' threads
    log_thread,        \* log_thread[th]: [pc, msg, level, progress] of thread th
    printed_active,    \* a log setter printed while cli_initialized was true
    in_flush,          \* most threads ever between logfile.write and flush
    \* the JSONFrontend loop run in lockstep with the ConsoleFrontend loop
    twin               \* locals of JSONFrontend._loop

vars == << mode, show_parts, pc, cli_initialized, cursor_hidden, cursor_row,
           stop_event, size, idx, clock, t_start, s_start, t, s, last_bps,
           total_bps, now_bps, remaining, elapsed, speed, out, last_log,
           last_captcha_log, last_captcha_stats, logfile_open, logfile,
           terminate_calls, failed, raised, raised_at, nticks, polls, renders, reads, snap,
           ticks_after_stop, stop_before_first, win_upd, base, nlogs,
           cb_cursor_ok, recorded, durable, log_writer, max_row, sum_begin, s_prev,
           log_thread, printed_active, in_flush, twin >>

\* ----------------------------------------------------------------- helpers
\* A rate is the quotient num / den of a Python true division (den > 0); the
\* integer 0 assigned at lines 207-208 is 0/1.
Rat(n, d) == [num |-> n, den |-> d]
Zero == Rat(0, 1)
IsZero(r) == r.num = 0
IsPositive(r) == r.num > 0
IsNegative(r) == r.num < 0

Sample(bytes, time) == [s |-> bytes, t |-> time]
\* a line printed on stdout: its kind (the JSON status or key, "Statistics" for
\* the console summary, "print" for a directly printed log message), the message,
\* the downloaded amount and the average speed it carries
Rec(k, m, a, r) == [kind |-> k, msg |-> m, amount |-> a, speed |-> r]

RECURSIVE SumTo(_, _)
SumTo(f, n) == IF n = 0 THEN 0 ELSE f[n - 1] + SumTo(f, n - 1)

\* time.time(): the wall clock, read again, has not gone back
TimeReads == { c \in clock .. (clock + 1) : c <= MaxTime }

\* --------------------------------------------------- throughput estimator
\* lines 206-210 / 354-358: total_bps
AverageBps(sNow, tNow, s0, t0) ==
    IF tNow = t0 THEN Zero ELSE Rat(sNow - s0, tNow - t0)

\* mutant: the eviction tests len(last_bps) > 10
Evicted_Late(w) == IF Len(w) > WindowSize THEN Tail(w) ELSE w

\* lines 212-213 / 360-361: the window after the eviction
Evicted(w) == IF Len(w) >= WindowSize THEN Tail(w) ELSE w

\* mutant: the baseline is read before the eviction
Baseline_BeforeEviction(w) == Head(w)

\* line 214 / 362: (s_last, t_last) = last_bps[0]
Baseline(w) == Head(Evicted(w))

\* line 215 / 363 divides by t - t_last: ZeroDivisionError when it is 0
DivisionFault(tNow, t0, w) == tNow # t0 /\ tNow = Baseline(w).t

\* mutant: the byte difference of now_bps is taken the wrong way round
CurrentBps_Reversed(sNow, tNow, t0, w) ==
    IF tNow = t0 THEN Zero
    ELSE Rat(Baseline(w).s - sNow, tNow - Baseline(w).t)

\* lines 206-215 / 354-363: now_bps
CurrentBps(sNow, tNow, t0, w) ==
    IF tNow = t0 THEN Zero
    ELSE Rat(sNow - Baseline(w).s, tNow - Baseline(w).t)

\* lines 206-216 / 354-364: last_bps after the update
WindowAfter(sNow, tNow, t0, w) ==
    IF tNow = t0 THEN w ELSE Append(Evicted(w), Sample(sNow, tNow))

\* history: the iterations that appended the samples of Evicted(w) and of
\* WindowAfter, and the sample line 214 / 362 reads
EvictedUpd(w, wu) == SubSeq(wu, Len(w) - Len(Evicted(w)) + 1, Len(wu))
WinUpdAfter(n, tNow, t0, w, wu) ==
    IF tNow = t0 THEN wu ELSE Append(EvictedUpd(w, wu), n)
BaseAfter(tNow, t0, w, wu) ==
    IF tNow = t0 THEN [upd |-> -1, s |-> Head(w).s, t |-> Head(w).t]
    ELSE [upd |-> Head(EvictedUpd(w, wu)), s |-> Baseline(w).s,
          t |-> Baseline(w).t]

\* line 218 / 406: remaining = (total_size - s) / total_bps if total_bps > 0 else 0
Remaining(sNow, avg) ==
    IF IsPositive(avg) THEN Rat((TotalSize - sNow) * avg.den, avg.num) ELSE Zero

\* line 260 / 376: speed = (s - s_start) / elapsed if elapsed > 0 else 0
Speed(sNow, s0, el) == IF el > 0 THEN Rat(sNow - s0, el) ELSE Zero

\* a producer's thread outside the log setters
Idle == [pc |-> "idle", msg |-> "", level |-> "INFO", progress |-> FALSE]

\* JSONFrontend._loop before it is entered
TwinNotStarted ==
    [pc |-> "start", t_start |-> 0, s_start |-> 0, t |-> 0, s |-> 0,
     last_bps |-> << >>, total_bps |-> Zero, now_bps |-> Zero,
     remaining |-> Zero, nticks |-> 0, elapsed |-> 0, speed |-> Zero]

\* ------------------------------------------------------------------- Init
\* The state after the constructor: JSONFrontend.__init__ has printed the
\* INITIALIZING record (line 288).
InitState ==
    /\ mode \in Modes
    /\ cli_initialized = FALSE
    /\ cursor_hidden = FALSE
    /\ cursor_row = 0
    /\ stop_event = FALSE
    /\ size = [p \in Parts |-> 0]
    /\ idx = 0
    /\ clock = 0
    /\ total_bps = Zero /\ now_bps = Zero /\ remaining = Zero
    /\ elapsed = 0 /\ speed = Zero
    /\ out = IF mode = "json" THEN << Rec("INITIALIZING", "", 0, Zero) >> ELSE << >>
    /\ last_log = << "", "INFO" >>
    /\ last_captcha_log = << "", "INFO" >>
    /\ last_captcha_stats = "None"
    /\ logfile = << >>
    /\ terminate_calls = 0
    /\ failed = FALSE
    /\ raised = ""
    /\ raised_at = ""
    /\ nticks = 0 /\ polls = 0 /\ renders = 0 /\ reads = 0
    /\ snap = [p \in Parts |-> 0]
    /\ ticks_after_stop = 0
    /\ stop_before_first = FALSE
    /\ base = [upd |-> -1, s |-> 0, t |-> 0]
    /\ nlogs = 0
    /\ cb_cursor_ok = TRUE
    /\ recorded = << >>
    /\ durable = 0
    /\ log_writer = << >>
    /\ max_row = 0
    /\ sum_begin = 0
    /\ s_prev = 0
    /\ log_thread = [th \in Threads |-> Idle]
    /\ printed_active = FALSE
    /\ in_flush = 0
    /\ twin = TwinNotStarted

\* the frontend constructed with its default arguments (show_parts = False,
\* logfile = "": lines 73, 280)
InitFrontend ==
    /\ InitState
    /\ show_parts = FALSE
    /\ logfile_open = FALSE

\* the frontend constructed with any arguments (lines 79-81 / 285-287)
InitConfigured ==
    /\ InitState
    /\ show_parts \in BOOLEAN
    /\ logfile_open \in BOOLEAN

Init ==
    /\ InitFrontend
    /\ pc = "start"
    /\ t_start = 0 /\ s_start = 0 /\ t = 0 /\ s = 0
    /\ last_bps = << >>
    /\ win_upd = << >>

\* variable groups left unchanged
termVars == << cli_initialized, cursor_hidden, cursor_row, max_row >>
logVars == << last_log, last_captcha_log, last_captcha_stats, logfile_open,
              logfile, nlogs, recorded, durable, log_writer >>
cfgVars == << mode, show_parts >>
thrVars == << log_thread, printed_active, in_flush >>
estVars == << t_start, s_start, t, s, last_bps, total_bps, now_bps, remaining,
              win_upd, base >>
endVars == << elapsed, speed, terminate_calls, failed, raised, raised_at,
              cb_cursor_ok >>
tickVars == << nticks, polls, renders, reads, snap, ticks_after_stop,
               stop_before_first, sum_begin, s_prev >>

\* --------------------------------------------------------- the environment
\* A download worker advances its part (outside frontend.py); bytes only grow,
\* and the parts together hold at most MaxBytes (<= info.total_size) bytes.
\* The monitor sees a part only through get_frontend_status, so the workers'
\* steps are interleaved with the read passes.
Worker(p) ==
    /\ pc \in {"initread", "read"}
    /\ SumTo(size, NParts) < MaxBytes
    /\ size' = [size EXCEPT ![p] = @ + 1]
    /\ UNCHANGED << cfgVars, thrVars, twin, pc, termVars, stop_event, idx, clock, estVars,
                    endVars, out, logVars, tickVars >>

\* The owner of stop_event sets it; it is never cleared.
SetStop ==
    /\ pc # "done"
    /\ ~stop_event
    /\ stop_event' = TRUE
    /\ UNCHANGED << cfgVars, thrVars, twin, pc, termVars, size, idx, clock, estVars, endVars,
                    out, logVars, tickVars >>

\* ------------------------------------------------------ ConsoleFrontend.run
\* run is called (line 144 / 328).  JSONFrontend._loop starts at line 336:
\* JSONReport(info), t_start = time.time(), s_start = 0.
Run ==
    /\ pc = "start"
    /\ IF mode = "console"
       THEN /\ pc' = "activate"
            /\ UNCHANGED << clock, t_start, s_start, idx >>
       ELSE /\ pc' = "initread"
            /\ \E c \in TimeReads : clock' = c /\ t_start' = c
            /\ s_start' = 0
            /\ idx' = 0
    /\ UNCHANGED << cfgVars, thrVars, twin, termVars, stop_event, size, t, s, last_bps,
                    total_bps, now_bps, remaining, win_upd, base, endVars,
                    out, logVars, tickVars >>

\* lines 158-160: clear the screen, hide the cursor, cli_initialized = True
\* (nothing between the write of line 159 and the assignment of line 160 can
\* raise, so the two are one step of the monitor)
Activate ==
    /\ pc = "activate"
    /\ cursor_hidden' = TRUE
    /\ cli_initialized' = TRUE
    /\ pc' = "header"
    /\ UNCHANGED << cfgVars, thrVars, twin, cursor_row, max_row, stop_event, size, idx, clock, estVars,
                    endVars, out, logVars, tickVars >>

\* lines 162-170: the static header, then t_start = time.time(), s_start = 0
Header ==
    /\ pc = "header"
    /\ \E c \in TimeReads : clock' = c /\ t_start' = c
    /\ s_start' = 0
    /\ idx' = 0
    /\ pc' = "initread"
    /\ UNCHANGED << cfgVars, thrVars, twin, termVars, stop_event, size, t, s, last_bps,
                    total_bps, now_bps, remaining, win_upd, base, endVars,
                    out, logVars, tickVars >>

\* lines 171-174 / 340-343: one get_frontend_status of the initial pass; after
\* the last part last_bps = [(s_start, t_start)] (and y = 0)
InitRead ==
    /\ pc = "initread"
    /\ idx < NParts
    /\ s_start' = s_start + size[idx]
    /\ idx' = idx + 1
    /\ IF idx + 1 = NParts
       THEN /\ last_bps' = << Sample(s_start + size[idx], t_start) >>
            /\ win_upd' = << 0 >>
            /\ pc' = "tick"
       ELSE UNCHANGED << last_bps, win_upd, pc >>
    /\ UNCHANGED << cfgVars, thrVars, twin, termVars, stop_event, size, clock, t_start, t, s,
                    total_bps, now_bps, remaining, base, endVars, out,
                    logVars, tickVars >>

\* lines 179-182 / 346-348: a loop iteration begins: t = time.time(), s = 0.
\* MaxTicks caps the iterations begun before the stop event is set.
TickBegin ==
    /\ pc = "tick"
    /\ nticks < MaxTicks \/ (stop_event /\ ticks_after_stop <= 1)
    /\ \E c \in TimeReads : clock' = c /\ t' = c
    /\ s' = 0
    /\ idx' = 0
    /\ reads' = 0
    /\ snap' = [p \in Parts |-> 0]
    /\ nticks' = nticks + 1
    /\ ticks_after_stop' = ticks_after_stop + (IF stop_event THEN 1 ELSE 0)
    /\ stop_before_first' = IF nticks = 0 THEN stop_event ELSE stop_before_first
    /\ sum_begin' = SumTo(size, NParts)
    /\ s_prev' = s
    /\ pc' = "read"
    /\ UNCHANGED << cfgVars, thrVars, twin, termVars, stop_event, size, t_start, s_start,
                    last_bps, total_bps, now_bps, remaining, win_upd, base,
                    endVars, out, logVars, polls, renders >>

\* mutant: the read pass polls the stop event and leaves the loop at once
ReadPart_Abort ==
    /\ pc = "read"
    /\ idx < NParts
    /\ IF stop_event
       THEN /\ pc' = (IF mode = "console" THEN "teardown" ELSE "summary")
            /\ UNCHANGED << s, snap, reads, idx >>
       ELSE /\ s' = s + size[idx]
            /\ snap' = [snap EXCEPT ![idx] = size[idx]]
            /\ reads' = reads + 1
            /\ idx' = idx + 1
            /\ pc' = IF idx + 1 = NParts THEN "render" ELSE "read"
    /\ UNCHANGED << cfgVars, thrVars, twin, termVars, stop_event, size, clock, t_start,
                    s_start, t, last_bps, total_bps, now_bps, remaining,
                    win_upd, base, endVars, out, logVars, nticks, polls,
                    renders, ticks_after_stop, stop_before_first, sum_begin,
                    s_prev >>

\* mutant: every read of the pass asks the first part
ReadPart_First ==
    /\ pc = "read"
    /\ idx < NParts
    /\ s' = s + size[0]
    /\ snap' = [snap EXCEPT ![idx] = size[0]]
    /\ reads' = reads + 1
    /\ idx' = idx + 1
    /\ pc' = IF idx + 1 = NParts THEN "render" ELSE "read"
    /\ UNCHANGED << cfgVars, thrVars, twin, termVars, stop_event, size, clock,
                    t_start, s_start, t, last_bps, total_bps, now_bps,
                    remaining, win_upd, base, endVars, out, logVars, nticks,
                    polls, renders, ticks_after_stop, stop_before_first,
                    sum_begin, s_prev >>

\* lines 183-186 / 349-351: one get_frontend_status of the tick's pass
ReadPart ==
    /\ pc = "read"
    /\ idx < NParts
    /\ s' = s + size[idx]
    /\ snap' = [snap EXCEPT ![idx] = size[idx]]
    /\ reads' = reads + 1
    /\ idx' = idx + 1
    /\ pc' = IF idx + 1 = NParts THEN "render" ELSE "read"
    /\ UNCHANGED << cfgVars, thrVars, twin, termVars, stop_event, size, clock, t_start,
                    s_start, t, last_bps, total_bps, now_bps, remaining,
                    win_upd, base, endVars, out, logVars, nticks, polls,
                    renders, ticks_after_stop, stop_before_first, sum_begin,
                    s_prev >>

\* rows of the dynamic region (lines 188-245): the [Link solve] line is at
\* CLI_STATUS_STARTLINE, the statistics line follows when last_captcha_stats is
\* not None, then [Progress], then [STATUS], then one row per part
StatsRows == IF last_captcha_stats # "None" THEN 1 ELSE 0
StatusRow == CLI_STATUS_STARTLINE + StatsRows + 2
\* mutant: the part rows begin two rows lower
PartRow_Lower(p) == StatusRow + 3 + p

PartRow(p) == StatusRow + 1 + p
LastRenderRow == IF show_parts /\ NParts > 0 THEN PartRow(NParts - 1) ELSE StatusRow

\* lines 188-245 / 354-367: the rates, the remaining time and the rendering of
\* the tick (the dashboard rows; jsonReport.update and print(jsonReport))
Render ==
    /\ pc = "render"
    /\ ~DivisionFault(t, t_start, last_bps)
    /\ total_bps' = AverageBps(s, t, s_start, t_start)
    /\ now_bps' = CurrentBps(s, t, t_start, last_bps)
    /\ last_bps' = WindowAfter(s, t, t_start, last_bps)
    /\ win_upd' = WinUpdAfter(nticks, t, t_start, last_bps, win_upd)
    /\ base' = BaseAfter(t, t_start, last_bps, win_upd)
    /\ remaining' = Remaining(s, AverageBps(s, t, s_start, t_start))
    /\ IF mode = "console"
       THEN /\ cursor_row' = LastRenderRow
            /\ out' = out
       ELSE /\ cursor_row' = cursor_row
            /\ out' = Append(out, Rec("DOWNLOADING", "", s,
                                      AverageBps(s, t, s_start, t_start)))
    /\ max_row' = IF mode = "console" /\ LastRenderRow > max_row
                  THEN LastRenderRow ELSE max_row
    /\ renders' = renders + 1
    /\ pc' = "check"
    /\ UNCHANGED << cfgVars, thrVars, twin, cli_initialized, cursor_hidden,
                    stop_event, size, idx, clock, t_start, s_start, t, s,
                    endVars, logVars, nticks, polls, reads, snap,
                    ticks_after_stop, stop_before_first, sum_begin, s_prev >>

\* mutant: the loop polls the stop event and never breaks
CheckStop_Never ==
    /\ pc = "check"
    /\ polls' = polls + 1
    /\ pc' = "sleep"
    /\ UNCHANGED << cfgVars, thrVars, twin, termVars, stop_event, size, idx, clock, estVars,
                    endVars, out, logVars, nticks, renders, reads, snap,
                    ticks_after_stop, stop_before_first, sum_begin, s_prev >>

\* lines 247-248 / 369-370: if stop_event.is_set(): break
CheckStop ==
    /\ pc = "check"
    /\ polls' = polls + 1
    /\ pc' = IF stop_event
             THEN (IF mode = "console" THEN "teardown" ELSE "summary")
             ELSE "sleep"
    /\ UNCHANGED << cfgVars, thrVars, twin, termVars, stop_event, size, idx, clock, estVars,
                    endVars, out, logVars, nticks, renders, reads, snap,
                    ticks_after_stop, stop_before_first, sum_begin, s_prev >>

\* line 250 / 372: time.sleep(0.5)
Sleep ==
    /\ pc = "sleep"
    /\ pc' = "tick"
    /\ UNCHANGED << cfgVars, thrVars, twin, termVars, stop_event, size, idx, clock, estVars,
                    endVars, out, logVars, tickVars >>

\* mutant: the teardown shows the cursor and leaves cli_initialized set
Teardown_KeepFlag ==
    /\ pc = "teardown"
    /\ IF cli_initialized
       THEN /\ cursor_row' = NParts + CLI_STATUS_STARTLINE + 4 + 2
            /\ cursor_hidden' = FALSE
            /\ cli_initialized' = cli_initialized
            /\ max_row' = max_row
       ELSE UNCHANGED termVars
    /\ pc' = "summary"
    /\ UNCHANGED << cfgVars, thrVars, twin, stop_event, size, idx, clock, estVars, endVars, out,
                    logVars, tickVars >>

\* lines 252-256: after the loop the cursor is put below the dashboard and shown
Teardown ==
    /\ pc = "teardown"
    /\ IF cli_initialized
       THEN /\ cursor_row' = NParts + CLI_STATUS_STARTLINE + 4 + 2
            /\ cursor_hidden' = FALSE
            /\ cli_initialized' = FALSE
            /\ max_row' = max_row
       ELSE UNCHANGED termVars
    /\ pc' = "summary"
    /\ UNCHANGED << cfgVars, thrVars, twin, stop_event, size, idx, clock, estVars, endVars, out,
                    logVars, tickVars >>

\* mutant: the summary reports the parts' sizes of the moment, not the tick's s
Summary_Fresh ==
    /\ pc = "summary"
    /\ \E c \in TimeReads :
          /\ clock' = c
          /\ elapsed' = c - t_start
          /\ speed' = Speed(SumTo(size, NParts), s_start, c - t_start)
          /\ out' = Append(out,
                 IF mode = "console"
                 THEN Rec("Statistics", "", SumTo(size, NParts) - s_start,
                          Speed(SumTo(size, NParts), s_start, c - t_start))
                 ELSE Rec("COMPLETED", "", 0,
                          Speed(SumTo(size, NParts), s_start, c - t_start)))
    /\ pc' = "done"
    /\ UNCHANGED << cfgVars, thrVars, twin, termVars, stop_event, size, idx, estVars,
                    terminate_calls, failed, raised, raised_at, cb_cursor_ok,
                    logVars, tickVars >>

\* mutant: the summary line / COMPLETED record is printed twice
Summary_Twice ==
    /\ pc = "summary"
    /\ \E c \in TimeReads :
          /\ clock' = c
          /\ elapsed' = c - t_start
          /\ speed' = Speed(s, s_start, c - t_start)
          /\ out' = out \o
                 << IF mode = "console"
                    THEN Rec("Statistics", "", s - s_start,
                             Speed(s, s_start, c - t_start))
                    ELSE Rec("COMPLETED", "", 0, Speed(s, s_start, c - t_start)),
                    IF mode = "console"
                    THEN Rec("Statistics", "", s - s_start,
                             Speed(s, s_start, c - t_start))
                    ELSE Rec("COMPLETED", "", 0, Speed(s, s_start, c - t_start)) >>
    /\ pc' = "done"
    /\ UNCHANGED << cfgVars, thrVars, twin, termVars, stop_event, size, idx,
                    estVars, terminate_calls, failed, raised, raised_at,
                    cb_cursor_ok, logVars, tickVars >>

\* lines 258-268 / 374-378: elapsed, speed and the summary line / COMPLETED record
Summary ==
    /\ pc = "summary"
    /\ \E c \in TimeReads :
          /\ clock' = c
          /\ elapsed' = c - t_start
          /\ speed' = Speed(s, s_start, c - t_start)
          /\ out' = Append(out,
                 IF mode = "console"
                 THEN Rec("Statistics", "", s - s_start,
                          Speed(s, s_start, c - t_start))
                 ELSE Rec("COMPLETED", "", 0, Speed(s, s_start, c - t_start)))
    /\ pc' = "done"
    /\ UNCHANGED << cfgVars, thrVars, twin, termVars, stop_event, size, idx, estVars,
                    terminate_calls, failed, raised, raised_at, cb_cursor_ok,
                    logVars,
                    tickVars >>

\* ---------------------------------------------------------- failure path
\* where _loop can raise: printing the header, a get_frontend_status call,
\* rendering a tick, printing the summary
RaisePoints == {"header", "initread", "read", "render", "summary"}

\* the except clause a raise lands in: line 147 / 331
Handler == IF mode = "console" THEN "except" ELSE "terminate"

\* an exception leaves _loop while the initial sizes are read (lines 162-173 /
\* 340-342)
RaiseInit ==
    /\ pc \in {"header", "initread"}
    /\ failed' = TRUE
    /\ raised' = "Exception"
    /\ raised_at' = pc
    /\ pc' = Handler
    /\ UNCHANGED << cfgVars, thrVars, twin, termVars, stop_event, size, idx, clock, estVars,
                    elapsed, speed, terminate_calls, cb_cursor_ok, out, logVars,
                    tickVars >>

\* an exception leaves _loop during a tick (lines 179-245 / 346-367); line 215 /
\* 363 raises ZeroDivisionError when t equals the baseline's timestamp, after
\* line 210 / 358 has set total_bps
RaiseTick ==
    /\ pc \in {"read", "render"}
    /\ failed' = TRUE
    /\ IF pc = "render" /\ DivisionFault(t, t_start, last_bps)
       THEN /\ raised' = "ZeroDivisionError"
            /\ total_bps' = AverageBps(s, t, s_start, t_start)
       ELSE /\ raised' = "Exception"
            /\ total_bps' = total_bps
    /\ raised_at' = pc
    /\ pc' = Handler
    /\ UNCHANGED << cfgVars, thrVars, twin, termVars, stop_event, size, idx, clock, t_start,
                    s_start, t, s, last_bps, now_bps, remaining, win_upd, base,
                    elapsed, speed, terminate_calls, cb_cursor_ok, out, logVars,
                    tickVars >>

\* an exception leaves _loop while the summary is printed (lines 258-268 /
\* 374-378)
RaiseSummary ==
    /\ pc = "summary"
    /\ failed' = TRUE
    /\ raised' = "Exception"
    /\ raised_at' = pc
    /\ pc' = Handler
    /\ UNCHANGED << cfgVars, thrVars, twin, termVars, stop_event, size, idx, clock, estVars,
                    elapsed, speed, terminate_calls, cb_cursor_ok, out, logVars,
                    tickVars >>

\* mutant: the console handler goes straight to print_exc()
ExceptRestore_Skip ==
    /\ pc = "except"
    /\ pc' = "terminate"
    /\ UNCHANGED << cfgVars, thrVars, twin, termVars, stop_event, size, idx, clock, estVars,
                    endVars, out, logVars, tickVars >>

\* lines 148-153: the console handler restores the terminal
ExceptRestore ==
    /\ pc = "except"
    /\ IF cli_initialized
       THEN /\ cursor_row' = NParts + CLI_STATUS_STARTLINE + 4
            /\ cursor_hidden' = FALSE
            /\ cli_initialized' = FALSE
            /\ max_row' = max_row
       ELSE UNCHANGED termVars
    /\ pc' = "terminate"
    /\ UNCHANGED << cfgVars, thrVars, twin, stop_event, size, idx, clock, estVars, endVars, out,
                    logVars, tickVars >>

\* lines 154-155 / 332-333: print_exc() (on stderr), terminate_func()
Terminate ==
    /\ pc = "terminate"
    /\ terminate_calls' = terminate_calls + 1
    /\ cb_cursor_ok' = (mode = "console" =>
                          /\ ~cursor_hidden
                          /\ cursor_row >= NParts + CLI_STATUS_STARTLINE + 4)
    /\ pc' = "done"
    /\ UNCHANGED << cfgVars, thrVars, twin, termVars, stop_event, size, idx, clock, estVars,
                    elapsed, speed, failed, raised, raised_at, out, logVars,
                    tickVars >>

\* ------------------------------------------------------------ log setters
\* lines 94-100 / 301-307: _log_logfile
LogLine(prefix, msg, level) == << prefix, level, msg >>
LogfileAfter(prefix, msg, progress, level) ==
    IF progress \/ ~logfile_open THEN logfile
    ELSE Append(logfile, LogLine(prefix, msg, level))

\* history: the thread that appended the line, and the call itself
LogWriterAfter(th, progress) ==
    IF progress \/ ~logfile_open THEN log_writer ELSE Append(log_writer, th)
Recording(ch, m, l) == [chan |-> ch, msg |-> m, level |-> l]
DurableAfter(progress) ==
    IF progress \/ ~logfile_open THEN durable ELSE durable + 1

\* lines 105-106, 111-112, 117-118: the message is printed unless the dashboard
\* is up
PrintedAfter(msg) ==
    IF ~cli_initialized THEN Append(out, Rec("print", msg, 0, Zero)) ELSE out

\* line 318: `LogLevel == LogLevel.ERROR` compares the enum class with one of its
\* members
JsonMainLogEmits(level) == FALSE

\* lines 102-106 / 309-310
TorLog(msg, level, progress) ==
    /\ nlogs < MaxLogCalls
    /\ nlogs' = nlogs + 1
    /\ recorded' = Append(recorded, Recording("tor", msg, level))
    /\ durable' = DurableAfter(progress)
    /\ IF mode = "console"
       THEN /\ last_captcha_log' = << msg, level >>
            /\ logfile' = LogfileAfter("TOR ", msg, progress, level)
            /\ log_writer' = LogWriterAfter("tor", progress)
            /\ out' = PrintedAfter(msg)
       ELSE /\ out' = Append(out, Rec("tor", msg, 0, Zero))
            /\ UNCHANGED << last_captcha_log, logfile, log_writer >>
    /\ UNCHANGED << cfgVars, thrVars, twin, pc, termVars, stop_event, size, idx, clock, estVars,
                    endVars, last_log, last_captcha_stats, logfile_open,
                    tickVars >>

\* lines 108-112 / 313-314
CaptchaLog(msg, level, progress) ==
    /\ nlogs < MaxLogCalls
    /\ nlogs' = nlogs + 1
    /\ recorded' = Append(recorded, Recording("captcha", msg, level))
    /\ durable' = DurableAfter(progress)
    /\ IF mode = "console"
       THEN /\ last_captcha_log' = << msg, level >>
            /\ logfile' = LogfileAfter("CAPTCHA", msg, progress, level)
            /\ log_writer' = LogWriterAfter("captcha", progress)
            /\ out' = PrintedAfter(msg)
       ELSE /\ out' = Append(out, Rec("captcha", msg, 0, Zero))
            /\ UNCHANGED << last_captcha_log, logfile, log_writer >>
    /\ UNCHANGED << cfgVars, thrVars, twin, pc, termVars, stop_event, size, idx, clock, estVars,
                    endVars, last_log, last_captcha_stats, logfile_open,
                    tickVars >>

\* mutant: main_log also overwrites the message shared by TOR and CAPTCHA
MainLog_Clobber(msg, level, progress) ==
    /\ nlogs < MaxLogCalls
    /\ nlogs' = nlogs + 1
    /\ recorded' = Append(recorded, Recording("main", msg, level))
    /\ durable' = DurableAfter(progress)
    /\ IF mode = "console"
       THEN /\ last_log' = << msg, level >>
            /\ last_captcha_log' = << msg, level >>
            /\ logfile' = LogfileAfter("MAIN", msg, progress, level)
            /\ log_writer' = LogWriterAfter("main", progress)
            /\ out' = PrintedAfter(msg)
       ELSE /\ out' = IF JsonMainLogEmits(level)
                      THEN Append(out, Rec("ERROR", msg, 0, Zero)) ELSE out
            /\ UNCHANGED << last_log, last_captcha_log, logfile, log_writer >>
    /\ UNCHANGED << cfgVars, thrVars, twin, pc, termVars, stop_event, size, idx,
                    clock, estVars, endVars, last_captcha_stats, logfile_open,
                    tickVars >>

\* lines 114-118 / 317-319
MainLog(msg, level, progress) ==
    /\ nlogs < MaxLogCalls
    /\ nlogs' = nlogs + 1
    /\ recorded' = Append(recorded, Recording("main", msg, level))
    /\ durable' = DurableAfter(progress)
    /\ IF mode = "console"
       THEN /\ last_log' = << msg, level >>
            /\ logfile' = LogfileAfter("MAIN", msg, progress, level)
            /\ log_writer' = LogWriterAfter("main", progress)
            /\ out' = PrintedAfter(msg)
       ELSE /\ out' = IF JsonMainLogEmits(level)
                      THEN Append(out, Rec("ERROR", msg, 0, Zero)) ELSE out
            /\ UNCHANGED << last_log, logfile, log_writer >>
    /\ UNCHANGED << cfgVars, thrVars, twin, pc, termVars, stop_event, size, idx, clock, estVars,
                    endVars, last_captcha_log, last_captcha_stats, logfile_open,
                    tickVars >>

\* lines 120-121 / 321-322
CaptchaStats(stats) ==
    /\ nlogs < MaxLogCalls
    /\ nlogs' = nlogs + 1
    /\ last_captcha_stats' = stats
    /\ UNCHANGED << cfgVars, thrVars, twin, pc, termVars, stop_event, size, idx, clock, estVars,
                    endVars, out, last_log, last_captcha_log, logfile_open,
                    logfile, recorded, durable, log_writer, tickVars >>

\* ------------------------------------------------------------------- Next
Monitor ==
    \/ Run
    \/ Activate
    \/ Header
    \/ InitRead
    \/ TickBegin
    \/ ReadPart
    \/ Render
    \/ CheckStop
    \/ Sleep
    \/ Teardown
    \/ Summary
    \/ RaiseInit
    \/ RaiseTick
    \/ RaiseSummary
    \/ ExceptRestore
    \/ Terminate

Producers ==
    \/ \E m \in Msgs, l \in Levels, pr \in BOOLEAN : TorLog(m, l, pr)
    \/ \E m \in Msgs, l \in Levels, pr \in BOOLEAN : CaptchaLog(m, l, pr)
    \/ \E m \in Msgs, l \in Levels, pr \in BOOLEAN : MainLog(m, l, pr)
    \/ \E st \in StatsVals : CaptchaStats(st)

Next ==
    \/ Monitor
    \/ \E p \in Parts : Worker(p)
    \/ SetStop
    \/ Producers

Spec == Init /\ [][Next]_vars

\* The monitor with the workers and the stop event, the log producers silent.
NextMonitor ==
    \/ Monitor
    \/ \E p \in Parts : Worker(p)
    \/ SetStop

SpecMonitor == Init /\ [][NextMonitor]_vars

\* The monitor is a thread of its own: it is scheduled again and again, and
\* time.sleep(0.5) returns.
FairMonitor == SpecMonitor /\ WF_vars(Monitor)

\* ------------------------------------------ throughput-window specification
\* The estimator of lines 179-218 / 346-366 alone, over many iterations: the
\* state after line 174 / 343, then one action per loop iteration whose
\* timestamp c and byte total b are drawn from all non-decreasing sequences.
InitWindow ==
    /\ InitFrontend
    /\ pc = "tick"
    /\ t_start = 0 /\ s_start = 0 /\ t = 0 /\ s = 0
    /\ last_bps = << Sample(0, 0) >>
    /\ win_upd = << 0 >>

WindowTimes == { c \in clock .. (clock + 1) : c <= MaxSpan }
WindowBytes == { b \in s .. (s + 1) : b <= MaxBytes }

\* one iteration whose rates are computed
EstimatorUpdate ==
    /\ pc = "tick"
    /\ nticks < MaxUpdates
    /\ \E c \in WindowTimes, b \in WindowBytes :
          /\ ~DivisionFault(c, t_start, last_bps)
          /\ clock' = c /\ t' = c /\ s' = b
          /\ total_bps' = AverageBps(b, c, s_start, t_start)
          /\ now_bps' = CurrentBps(b, c, t_start, last_bps)
          /\ last_bps' = WindowAfter(b, c, t_start, last_bps)
          /\ win_upd' = WinUpdAfter(nticks + 1, c, t_start, last_bps, win_upd)
          /\ base' = BaseAfter(c, t_start, last_bps, win_upd)
          /\ remaining' = Remaining(b, AverageBps(b, c, s_start, t_start))
    /\ nticks' = nticks + 1
    /\ renders' = renders + 1
    /\ UNCHANGED << cfgVars, thrVars, twin, pc, termVars, stop_event, size, idx, t_start,
                    s_start, endVars, out, logVars, polls, reads, snap,
                    ticks_after_stop, stop_before_first, sum_begin, s_prev >>

\* one iteration in which line 215 / 363 raises
EstimatorRaise ==
    /\ pc = "tick"
    /\ nticks < MaxUpdates
    /\ \E c \in WindowTimes, b \in WindowBytes :
          /\ DivisionFault(c, t_start, last_bps)
          /\ clock' = c /\ t' = c /\ s' = b
          /\ total_bps' = AverageBps(b, c, s_start, t_start)
    /\ nticks' = nticks + 1
    /\ failed' = TRUE
    /\ raised' = "ZeroDivisionError"
    /\ raised_at' = "render"
    /\ pc' = Handler
    /\ UNCHANGED << cfgVars, thrVars, twin, termVars, stop_event, size, idx, t_start, s_start,
                    last_bps, now_bps, remaining, win_upd, base, elapsed, speed,
                    terminate_calls, cb_cursor_ok, out, logVars, polls, renders,
                    reads, snap, ticks_after_stop, stop_before_first, sum_begin,
                    s_prev >>

NextWindow == EstimatorUpdate \/ EstimatorRaise

SpecWindow == InitWindow /\ [][NextWindow]_vars

\* ------------------------------------------------ log-setter specification
\* A frontend constructed with any arguments, whose run has not been called.
InitAny ==
    /\ InitConfigured
    /\ pc = "start"
    /\ t_start = 0 /\ s_start = 0 /\ t = 0 /\ s = 0
    /\ last_bps = << >>
    /\ win_upd = << >>

\* The log setters called one after the other, before run and while the
\* dashboard comes up.
NextLog ==
    \/ Producers
    \/ Run
    \/ Activate

SpecLog == InitAny /\ [][NextLog]_vars

\* ------------------------------------- log setters, statement by statement
\* The producers call the log setters from their own threads (th calls the
\* setter of its channel) while the monitor runs; a thread is between two
\* statements of the setter at each step.
Prefix(ch) == IF ch = "tor" THEN "TOR "
              ELSE IF ch = "captcha" THEN "CAPTCHA" ELSE "MAIN"
InFlush(lt) == Cardinality({ th \in Threads : lt[th].pc = "flush" })

\* lines 103, 109, 115: the setter is entered and assigns the retained
\* message; lines 310, 314, 318: the JSON setter is one statement
LogCall(th, msg, level, progress) ==
    /\ log_thread[th].pc = "idle"
    /\ nlogs < MaxLogCalls
    /\ nlogs' = nlogs + 1
    /\ recorded' = Append(recorded, Recording(th, msg, level))
    /\ durable' = DurableAfter(progress)
    /\ IF mode = "console"
       THEN /\ IF th = "main"
               THEN last_log' = << msg, level >> /\ UNCHANGED last_captcha_log
               ELSE last_captcha_log' = << msg, level >> /\ UNCHANGED last_log
            /\ log_thread' = [log_thread EXCEPT ![th] =
                   [pc |-> "logfile", msg |-> msg, level |-> level,
                    progress |-> progress]]
            /\ out' = out
       ELSE /\ out' = IF th = "main"
                      THEN (IF JsonMainLogEmits(level)
                            THEN Append(out, Rec("ERROR", msg, 0, Zero)) ELSE out)
                      ELSE Append(out, Rec(th, msg, 0, Zero))
            /\ UNCHANGED << last_log, last_captcha_log, log_thread >>
    /\ UNCHANGED << cfgVars, twin, printed_active, in_flush, pc, termVars,
                    stop_event, size, idx, clock, estVars, endVars,
                    last_captcha_stats, logfile_open, logfile, log_writer,
                    tickVars >>

\* lines 95-99: _log_logfile returns at once, or writes the line
LogWrite(th) ==
    /\ log_thread[th].pc = "logfile"
    /\ IF log_thread[th].progress \/ ~logfile_open
       THEN /\ log_thread' = [log_thread EXCEPT ![th].pc = "check"]
            /\ UNCHANGED << logfile, log_writer, in_flush >>
       ELSE /\ logfile' = Append(logfile, LogLine(Prefix(th), log_thread[th].msg,
                                                  log_thread[th].level))
            /\ log_writer' = Append(log_writer, th)
            /\ log_thread' = [log_thread EXCEPT ![th].pc = "flush"]
            /\ in_flush' = IF InFlush(log_thread') > in_flush
                           THEN InFlush(log_thread') ELSE in_flush
    /\ UNCHANGED << cfgVars, twin, printed_active, pc, termVars, stop_event,
                    size, idx, clock, estVars, endVars, out, last_log,
                    last_captcha_log, last_captcha_stats, logfile_open, nlogs,
                    recorded, durable, tickVars >>

\* line 100: self.logfile.flush()
LogFlush(th) ==
    /\ log_thread[th].pc = "flush"
    /\ log_thread' = [log_thread EXCEPT ![th].pc = "check"]
    /\ UNCHANGED << cfgVars, twin, printed_active, in_flush, pc, termVars,
                    stop_event, size, idx, clock, estVars, endVars, out,
                    logVars, tickVars >>

\* lines 105, 111, 117: if not self.cli_initialized
LogCheck(th) ==
    /\ log_thread[th].pc = "check"
    /\ log_thread' = [log_thread EXCEPT ![th] =
           IF ~cli_initialized THEN [@ EXCEPT !.pc = "print"] ELSE Idle]
    /\ UNCHANGED << cfgVars, twin, printed_active, in_flush, pc, termVars,
                    stop_event, size, idx, clock, estVars, endVars, out,
                    logVars, tickVars >>

\* lines 106, 112, 118: self._log_print(...)
LogPrint(th) ==
    /\ log_thread[th].pc = "print"
    /\ out' = Append(out, Rec("print", log_thread[th].msg, 0, Zero))
    /\ printed_active' = (printed_active \/ cli_initialized)
    /\ log_thread' = [log_thread EXCEPT ![th] = Idle]
    /\ UNCHANGED << cfgVars, twin, in_flush, pc, termVars, stop_event, size,
                    idx, clock, estVars, endVars, logVars, tickVars >>

LogThreads ==
    \/ \E th \in Threads, m \in Msgs, l \in Levels, pr \in BOOLEAN :
          LogCall(th, m, l, pr)
    \/ \E th \in Threads : LogWrite(th)
    \/ \E th \in Threads : LogFlush(th)
    \/ \E th \in Threads : LogCheck(th)
    \/ \E th \in Threads : LogPrint(th)

\* The producers' threads against the monitor bringing the dashboard up
\* (lines 144-170).
NextThreads ==
    \/ Run
    \/ Activate
    \/ Header
    \/ LogThreads

SpecThreads == InitAny /\ [][NextThreads]_vars

\* ------------------------------------------ the two loops side by side
\* JSONFrontend._loop and JSONReport.update, translated on their own, applied
\* to a record tw of the loop's locals.
\* lines 338-343
JsonStart(c, sz) ==
    [TwinNotStarted EXCEPT !.pc = "tick", !.t_start = c,
                           !.s_start = SumTo(sz, NParts),
                           !.last_bps = << Sample(SumTo(sz, NParts), c) >>]

\* mutant: the JSON loop evicts when the window holds more than 10 samples
JsonEvicted_Late(w) == IF Len(w) > WindowSize THEN SubSeq(w, 2, Len(w)) ELSE w

\* lines 360-361: last_bps = last_bps[1:]
JsonEvicted(w) == IF Len(w) >= WindowSize THEN SubSeq(w, 2, Len(w)) ELSE w

\* line 363 divides by t - t_last
JsonFault(tw, c) == c # tw.t_start /\ c - JsonEvicted(tw.last_bps)[1].t = 0

\* line 406: JSONReport.update, remaining
JsonReportRemaining(size_float, down_size, bps) ==
    IF bps.num > 0 THEN Rat((size_float - down_size) * bps.den, bps.num)
    ELSE Rat(0, 1)

\* lines 346-370: one iteration of the loop: b the bytes summed from the
\* parts, c the value of time.time(), stop the value of stop_event.is_set()
JsonTick(tw, b, c, stop) ==
    IF JsonFault(tw, c)
    THEN [tw EXCEPT !.pc = "failed", !.t = c, !.s = b,
                    !.total_bps = Rat(b - tw.s_start, c - tw.t_start),
                    !.nticks = @ + 1]
    ELSE IF c = tw.t_start
    THEN [tw EXCEPT !.pc = IF stop THEN "summary" ELSE "tick",
                    !.t = c, !.s = b,
                    !.total_bps = Rat(0, 1), !.now_bps = Rat(0, 1),
                    !.remaining = JsonReportRemaining(TotalSize, b, Rat(0, 1)),
                    !.nticks = @ + 1]
    ELSE LET w == JsonEvicted(tw.last_bps)
             avg == Rat(b - tw.s_start, c - tw.t_start)
         IN [tw EXCEPT !.pc = IF stop THEN "summary" ELSE "tick",
                       !.t = c, !.s = b,
                       !.total_bps = avg,
                       !.now_bps = Rat(b - w[1].s, c - w[1].t),
                       !.last_bps = Append(w, Sample(b, c)),
                       !.remaining = JsonReportRemaining(TotalSize, b, avg),
                       !.nticks = @ + 1]

\* lines 374-378
JsonSummary(tw, c) ==
    [tw EXCEPT !.pc = "done", !.elapsed = c - tw.t_start,
               !.speed = IF c - tw.t_start > 0
                         THEN Rat(tw.s - tw.s_start, c - tw.t_start)
                         ELSE Rat(0, 1)]

\* The inputs both loops are given: the parts' sizes (which only grow), the
\* value of time.time() and the value of stop_event.is_set().  Both loops
\* only add the sizes up, so one order of the parts stands for all: a part
\* is never ahead of the part before it.
NextSizes ==
    {size} \cup { [size EXCEPT ![p] = @ + 1] : p \in
                    { q \in Parts : /\ SumTo(size, NParts) < MaxBytes
                                    /\ q > 0 => size[q] < size[q - 1] } }

\* both loops are entered and read the parts (lines 158-176 / 336-343)
EquivStart ==
    /\ pc = "start"
    /\ \E c \in WindowTimes, sz \in NextSizes :
          /\ clock' = c /\ size' = sz
          /\ t_start' = c
          /\ s_start' = SumTo(sz, NParts)
          /\ last_bps' = << Sample(SumTo(sz, NParts), c) >>
          /\ twin' = JsonStart(c, sz)
    /\ win_upd' = << 0 >>
    /\ cli_initialized' = TRUE /\ cursor_hidden' = TRUE
    /\ pc' = "tick"
    /\ UNCHANGED << cfgVars, thrVars, cursor_row, max_row, stop_event, idx, t,
                    s, total_bps, now_bps, remaining, base, endVars, out,
                    logVars, tickVars >>

\* one iteration of both loops on the same inputs (lines 179-248 / 346-370)
EquivTick ==
    /\ pc = "tick"
    /\ nticks < MaxUpdates
    /\ \E c \in WindowTimes, sz \in NextSizes, stop \in {stop_event, TRUE} :
          /\ clock' = c /\ size' = sz /\ stop_event' = stop
          /\ t' = c /\ s' = SumTo(sz, NParts)
          /\ twin' = IF twin.pc = "tick"
                     THEN JsonTick(twin, SumTo(sz, NParts), c, stop) ELSE twin
          /\ total_bps' = AverageBps(SumTo(sz, NParts), c, s_start, t_start)
          /\ IF DivisionFault(c, t_start, last_bps)
             THEN /\ failed' = TRUE
                  /\ raised' = "ZeroDivisionError"
                  /\ raised_at' = "render"
                  /\ pc' = "except"
                  /\ UNCHANGED << now_bps, last_bps, win_upd, base, remaining,
                                  renders, polls, max_row >>
             ELSE /\ now_bps' = CurrentBps(SumTo(sz, NParts), c, t_start, last_bps)
                  /\ last_bps' = WindowAfter(SumTo(sz, NParts), c, t_start, last_bps)
                  /\ win_upd' = WinUpdAfter(nticks + 1, c, t_start, last_bps, win_upd)
                  /\ base' = BaseAfter(c, t_start, last_bps, win_upd)
                  /\ remaining' = Remaining(SumTo(sz, NParts),
                          AverageBps(SumTo(sz, NParts), c, s_start, t_start))
                  /\ renders' = renders + 1
                  /\ polls' = polls + 1
                  /\ max_row' = IF LastRenderRow > max_row
                                THEN LastRenderRow ELSE max_row
                  /\ pc' = IF stop THEN "teardown" ELSE "tick"
                  /\ UNCHANGED << failed, raised, raised_at >>
    /\ nticks' = nticks + 1
    /\ UNCHANGED << cfgVars, thrVars, cli_initialized, cursor_hidden,
                    cursor_row, idx, t_start, s_start, elapsed, speed,
                    terminate_calls, cb_cursor_ok, out, logVars, reads, snap,
                    ticks_after_stop, stop_before_first, sum_begin, s_prev >>

\* both loops print their summary (lines 258-268 / 374-378)
EquivSummary ==
    /\ pc = "summary"
    /\ \E c \in WindowTimes :
          /\ clock' = c
          /\ elapsed' = c - t_start
          /\ speed' = Speed(s, s_start, c - t_start)
          /\ out' = Append(out, Rec("Statistics", "", s - s_start,
                                    Speed(s, s_start, c - t_start)))
          /\ twin' = IF twin.pc = "summary" THEN JsonSummary(twin, c) ELSE twin
    /\ pc' = "done"
    /\ UNCHANGED << cfgVars, thrVars, termVars, stop_event, size, idx, estVars,
                    terminate_calls, failed, raised, raised_at, cb_cursor_ok,
                    logVars, tickVars >>

\* the console loop in the program's variables, the JSON loop in twin
InitEquiv == Init /\ mode = "console"

NextEquiv ==
    \/ EquivStart
    \/ EquivTick
    \/ Teardown
    \/ EquivSummary
    \/ ExceptRestore
    \/ Terminate

SpecEquiv == InitEquiv /\ [][NextEquiv]_vars

\* ------------------------------------------------- dashboard specification
\* The monitor of a frontend constructed with any arguments, with the stop
\* event and the solver reporting its statistics.
NextRows ==
    \/ Monitor
    \/ SetStop
    \/ \E st \in StatsVals : CaptchaStats(st)

SpecRows == InitAny /\ [][NextRows]_vars

\* ================================================================== claims
KindIdx(kinds) == { i \in 1 .. Len(out) : out[i].kind \in kinds }
KindCount(kinds) == Cardinality(KindIdx(kinds))
Returned == pc = "done"
StoppedRun == Returned /\ ~failed

\* C1: in structured mode the output holds exactly one INITIALIZING record,
\* before every DOWNLOADING record, and, once run has returned (by the stop
\* signal or by a failure), exactly one terminal record (COMPLETED or ERROR),
\* which is the last record of the output, log records included.
C1_RecordOrder ==
    mode = "json" =>
       /\ KindCount({"INITIALIZING"}) = 1
       /\ \A i \in KindIdx({"INITIALIZING"}), j \in KindIdx({"DOWNLOADING"}) : i < j
       /\ KindCount({"COMPLETED", "ERROR"}) <= 1
       /\ Returned =>
             /\ KindCount({"COMPLETED", "ERROR"}) = 1
             /\ out[Len(out)].kind \in {"COMPLETED", "ERROR"}

\* C2: in structured mode, when a get_frontend_status call or the rendering of
\* a tick raised, exactly one ERROR record has been printed by the time run
\* returns.
C2_ErrorRecord ==
    (mode = "json" /\ Returned /\ failed /\ raised_at \in {"read", "render"})
       => KindCount({"ERROR"}) = 1

\* C3: when _loop raises (initial read, tick or summary) terminate_func is
\* called exactly once, never otherwise, and in the console frontend it is
\* called with the cursor repositioned below the dashboard and visible.
C3_TerminateOnce ==
    /\ terminate_calls <= 1
    /\ terminate_calls = 1 => failed
    /\ (Returned /\ failed) => terminate_calls = 1
    /\ (mode = "console" /\ pc = "terminate") =>
          /\ ~cursor_hidden
          /\ cursor_row >= NParts + CLI_STATUS_STARTLINE + 4
    /\ cb_cursor_ok

C3_Witness ==
    /\ mode = "console" /\ Returned /\ raised_at = "render"
    /\ terminate_calls = 1
    /\ cursor_row = NParts + CLI_STATUS_STARTLINE + 4

\* C4: in the console frontend the cursor is hidden only while cli_initialized
\* is true, and when run has returned (stop or failure) the cursor is visible
\* and cli_initialized is false.
C4_CursorRestored ==
    mode = "console" =>
       /\ cursor_hidden => cli_initialized
       /\ Returned => (~cursor_hidden /\ ~cli_initialized)

C4_Witness ==
    /\ mode = "console" /\ Returned /\ raised_at = "read"
    /\ ~cursor_hidden /\ ~cli_initialized

\* the summary line / COMPLETED records of the output
Completions == KindIdx({"Statistics", "COMPLETED"})

\* C5: when the stop event was set before the first iteration began, exactly
\* one iteration runs, with one get_frontend_status per part and one render;
\* a run that then returns without failure has printed exactly one summary
\* line / COMPLETED record, as its last output, and the downloaded amount (the
\* DOWNLOADING record's, the summary line's above s_start) and the average
\* speed are those of the sizes read in that iteration.
C5_StopBeforeFirstTick ==
    stop_before_first =>
       /\ nticks = 1
       /\ (pc \in {"check", "teardown", "summary"} \/ StoppedRun) =>
             /\ reads = NParts /\ renders = 1 /\ polls <= 1
             /\ s = SumTo(snap, NParts)
       /\ StoppedRun =>
             /\ Cardinality(Completions) = 1
             /\ Len(out) \in Completions
             /\ out[Len(out)].speed = Speed(SumTo(snap, NParts), s_start, elapsed)
             /\ mode = "console" =>
                   out[Len(out)].amount = SumTo(snap, NParts) - s_start
             /\ mode = "json" =>
                   /\ KindCount({"DOWNLOADING"}) = 1
                   /\ \A i \in KindIdx({"DOWNLOADING"}) :
                         out[i].amount = SumTo(snap, NParts)

C5_Witness ==
    /\ stop_before_first /\ StoppedRun /\ mode = "console"
    /\ s_start = 0 /\ snap[1] = 1
    /\ out[Len(out)].kind = "Statistics" /\ out[Len(out)].amount = 1

\* C6: stop_event.is_set() is polled once per iteration, after that
\* iteration's read pass and render: an iteration that began is left before
\* its render only by an exception, and the loop exits by the stop signal
\* only with every begun iteration rendered and polled.
C6_PollAfterRender ==
    /\ polls <= renders /\ renders <= nticks /\ nticks <= polls + 1
    /\ pc \in {"read", "render"} => (polls = nticks - 1 /\ renders = nticks - 1)
    /\ pc = "check" => (renders = nticks /\ polls = nticks - 1)
    /\ pc = "read" => reads = idx
    /\ pc \in {"render", "check"} => reads = NParts
    /\ pc \in {"sleep", "teardown", "summary"} =>
          (polls = nticks /\ renders = nticks)
    /\ (Returned /\ renders < nticks) => (failed /\ raised_at \in {"read", "render"})
    /\ StoppedRun => (polls = nticks /\ renders = nticks /\ nticks >= 1)

\* the stop event became set during the last iteration, which was completed
C6_Witness ==
    /\ StoppedRun /\ ticks_after_stop = 0
    /\ nticks = 1 /\ renders = 1 /\ polls = 1

\* C7: once stop_event is set the monitor, scheduled fairly, returns from run;
\* at most one iteration begins after the event was set, and a run that
\* returns without an exception left the loop by the stop signal.
C7_StopTerminates ==
    /\ [](ticks_after_stop <= 1)
    /\ [](StoppedRun => (stop_event /\ polls = nticks))
    /\ stop_event ~> Returned

C7_Witness ==
    /\ StoppedRun /\ ticks_after_stop = 1 /\ nticks = 2

\* C8: the window never holds more than 10 samples, and from the 11th
\* iteration on the sample appended by the 1st iteration is not the baseline
\* of now_bps.
C8_WindowBound ==
    /\ Len(last_bps) <= WindowSize
    /\ Len(win_upd) = Len(last_bps)
    /\ renders >= WindowSize + 1 => base.upd # 1

C8_Witness ==
    /\ renders >= WindowSize + 1
    /\ nticks = renders
    /\ Len(last_bps) = WindowSize
    /\ base.upd = 2

C10_NoDivisionFault ==
    /\ raised # "ZeroDivisionError"
    /\ renders >= 1 =>
          /\ t - t_start = 0 => IsZero(total_bps)
          /\ t - base.t = 0 => IsZero(now_bps)
          /\ ~IsPositive(total_bps) => IsZero(remaining)

\* the message a channel retains: last_log for main_log (line 115),
\* last_captcha_log for tor_log and captcha_log (lines 103, 109)
Retained(ch) == IF ch = "main" THEN last_log ELSE last_captcha_log
NoMessage == << "", "INFO" >>
MsgOf(r) == << r.msg, r.level >>
RecordedOn(chs) == { i \in 1 .. Len(recorded) : recorded[i].chan \in chs }
LastOn(chs) ==
    IF RecordedOn(chs) = {} THEN NoMessage
    ELSE MsgOf(recorded[CHOOSE i \in RecordedOn(chs) :
                          \A j \in RecordedOn(chs) : j <= i])

\* C11: after message A and then message B were recorded on the same channel
\* (tor_log, captcha_log or main_log, either frontend), the (text, level) that
\* channel retains is B's, and A's is not retained.
C11_LatestOnly ==
    (Len(recorded) >= 2
       /\ recorded[Len(recorded)].chan = recorded[Len(recorded) - 1].chan) =>
       LET A == MsgOf(recorded[Len(recorded) - 1])
           B == MsgOf(recorded[Len(recorded)])
           ch == recorded[Len(recorded)].chan
       IN /\ Retained(ch) = B
          /\ A # B => Retained(ch) # A

\* C12 as stated: the three channels are independent, each channel retains
\* the last message recorded on that channel whatever was recorded on the
\* other two (console frontend).
C12_Independent ==
    mode = "console" => \A ch \in Channels : Retained(ch) = LastOn({ch})

\* C12 as amended: the console frontend retains two messages: last_log is the
\* last message recorded by main_log, untouched by tor_log and captcha_log;
\* last_captcha_log is the last message recorded by tor_log or captcha_log,
\* whichever came later, untouched by main_log.  The JSON frontend's setters
\* retain nothing.
C12_SharedSlot ==
    /\ mode = "console" =>
          /\ last_log = LastOn({"main"})
          /\ last_captcha_log = LastOn({"tor", "captcha"})
    /\ mode = "json" => (last_log = NoMessage /\ last_captcha_log = NoMessage)

C12_Witness ==
    /\ mode = "console" /\ Len(recorded) = 2
    /\ recorded[1].chan = "captcha" /\ recorded[2].chan = "main"
    /\ recorded[1].msg = "m1" /\ recorded[2].msg = "m2"
    /\ last_captcha_log = << "m1", recorded[1].level >>
    /\ last_log = << "m2", recorded[2].level >>

\* C13: with a log file configured (either frontend), the log file holds one
\* line per call of a log setter with progress = False and none for a call
\* with progress = True.
C13_DurableLogged ==
    logfile_open => Len(logfile) = durable

\* C14: a run that leaves the loop by the stop signal prints the summary line
\* / COMPLETED record exactly once, after the render of its last iteration
\* and, in the console frontend, after the cursor was shown again and
\* cli_initialized cleared; a run in which the header, a get_frontend_status
\* call or a render raised prints none.
C14_SummaryOnce ==
    /\ Cardinality(Completions) <= 1
    /\ pc = "summary" =>
          /\ Completions = {}
          /\ stop_event /\ nticks >= 1 /\ renders = nticks /\ polls = nticks
          /\ mode = "console" => (~cursor_hidden /\ ~cli_initialized)
    /\ StoppedRun =>
          /\ Cardinality(Completions) = 1
          /\ Len(out) \in Completions
          /\ renders = nticks
          /\ mode = "json" => KindCount({"DOWNLOADING"}) = renders
          /\ mode = "console" => (~cursor_hidden /\ ~cli_initialized)
    /\ (failed /\ raised_at \in {"header", "initread", "read", "render"}) =>
          Completions = {}

C14_Witness ==
    /\ StoppedRun /\ mode = "console" /\ nticks = 2
    /\ out = << Rec("Statistics", "", s - s_start, speed) >>
    /\ cursor_row = NParts + CLI_STATUS_STARTLINE + 4 + 2

\* an iteration of the loop computed its rates in this step
RatesComputed == renders' = renders + 1

C16_RowsAboveTeardown ==
    mode = "console" =>
       /\ max_row <= NParts + CLI_STATUS_STARTLINE + 3
       /\ pc \in {"summary", "terminate", "done"} =>
             /\ ~cli_initialized
             /\ max_row < cursor_row
       /\ pc = "summary" => cursor_row = NParts + CLI_STATUS_STARTLINE + 4 + 2
       /\ (pc = "terminate" /\ raised_at # "summary") =>
             cursor_row = NParts + CLI_STATUS_STARTLINE + 4

\* the lowest row a tick can write, followed by a failure
C16_Witness ==
    /\ mode = "console" /\ show_parts /\ last_captcha_stats # "None"
    /\ max_row = PartRow(NParts - 1)
    /\ max_row = NParts + CLI_STATUS_STARTLINE + 3
    /\ Returned /\ failed /\ raised_at = "render"
    /\ cursor_row = max_row + 1

\* C18: with the workers running during the read passes and bytes that only
\* grow, an iteration calls get_frontend_status once per part, in the order
\* of parts; its s is the sum of the sizes it read, at least the sum of all
\* parts when the pass began and at most their sum when it ended; and s is
\* not below the s of the iteration before.
C18_ReadPass ==
    /\ pc = "read" =>
          /\ reads = idx
          /\ s = SumTo(snap, idx)
          /\ \A p \in Parts : p >= idx => snap[p] = 0
          /\ sum_begin <= SumTo(size, NParts)
    /\ pc \in {"render", "check"} =>
          /\ reads = NParts
          /\ s = SumTo(snap, NParts)
          /\ sum_begin <= s
          /\ s <= SumTo(size, NParts)
          /\ s_prev <= s
    /\ \A p \in Parts : snap[p] <= size[p]

\* the second iteration read part 0 before its worker advanced it: s is the
\* sum at the beginning of the pass, below the sum at its end
C18_Witness ==
    /\ pc = "render" /\ nticks = 2
    /\ snap[0] < size[0]
    /\ s = sum_begin /\ s < SumTo(size, NParts)
    /\ s_prev <= s

\* C17: every line of the log file was appended by the monitor's thread,
\* none by a thread calling a log setter, and at most one thread at a time is
\* between logfile.write and logfile.flush.
C17_SingleWriter ==
    /\ \A i \in 1 .. Len(log_writer) : log_writer[i] \notin Threads
    /\ in_flush <= 1

\* C19: in the console frontend a log setter running concurrently with run
\* prints its message (lines 106, 112, 118) only in a state where
\* cli_initialized is false.
C19_NoPrintOnDashboard ==
    mode = "console" => ~printed_active

\* where the JSON loop is when the console loop is at pc
TwinPc ==
    IF pc \in {"teardown", "summary"} THEN "summary"
    ELSE IF pc \in {"except", "terminate"} THEN "failed"
    ELSE IF pc = "done" THEN (IF failed THEN "failed" ELSE "done")
    ELSE pc

\* C20: given the same parts' sizes, the same values of time.time() and the
\* same values of stop_event.is_set(), ConsoleFrontend._loop and
\* JSONFrontend._loop run the same number of iterations, leave the loop at
\* the same iteration (by the stop event or by the same exception), hold
\* after every iteration the same s, total_bps, now_bps, remaining and
\* last_bps, and report the same elapsed time and average speed.
C20_SameEstimates ==
    /\ twin.pc = TwinPc
    /\ twin.nticks = nticks
    /\ twin.t_start = t_start /\ twin.s_start = s_start
    /\ twin.t = t /\ twin.s = s
    /\ twin.total_bps = total_bps
    /\ twin.now_bps = now_bps
    /\ twin.remaining = remaining
    /\ twin.last_bps = last_bps
    /\ twin.elapsed = elapsed
    /\ twin.speed = speed

\* both loops ran 11 iterations with a full window and reported a speed
C20_Witness ==
    /\ pc = "done" /\ ~failed /\ twin.pc = "done"
    /\ nticks >= WindowSize + 1 /\ twin.nticks = nticks
    /\ Len(twin.last_bps) = WindowSize
    /\ IsPositive(twin.total_bps) /\ IsPositive(twin.remaining)
    /\ IsPositive(twin.speed) /\ twin.speed = speed

====
